---------------------------- MODULE Spec2Model ----------------------------
(***************************************************************************)
(* A model of the video scan engine: the profile builder                   *)
(* (calibrateReference), the frame scanner (scanFrame, calculateIoU), the  *)
(* cooperative orchestrator (processVideo of src/unnamed/part_001) and the *)
(* worker-offloaded orchestrator (processVideo of                          *)
(* src/hooks/useVisionEngine.ts).                                          *)
(*                                                                         *)
(* Time is counted in quarter seconds, so that the scan interval of 0.5 s  *)
(* is 2 units and a duration need not be a multiple of the interval.       *)
(* Ratios (normalized boxes, IoU, densities) are kept as pairs of integers *)
(* and compared by cross-multiplication.                                   *)
(***************************************************************************)
EXTENDS Integers, Sequences, FiniteSets, TLC

(***************************************************************************)
(* Bounds of the model.                                                    *)
(***************************************************************************)
MaxSessions == 2

MaxDur == 5

MaxContours == 2

MaxQueue == 3

MaxCands == 2

(***************************************************************************)
(* Program constants.                                                      *)
(***************************************************************************)
\* const interval = 0.5, in quarter seconds
Interval == 2

\* if (bestRect && maxArea > 100)
MinArea == 100

\* const processWidth = 640
ProcessWidth == 640

Max(a, b) == IF a >= b THEN a ELSE b

Min(a, b) == IF a <= b THEN a ELSE b

(***************************************************************************)
(* Numbers.  The program computes with IEEE 754 doubles; the quantities    *)
(* whose rounding decides a comparison are modelled bit for bit.  A double *)
(* in [0, 65536) whose last significand bit is no finer than 2^-80 is a    *)
(* sequence of NumLimbs digits in base Radix, most significant first: one   *)
(* digit before the point and five after it.  Quotient, difference and     *)
(* product are computed exactly and then rounded to Significand bits,      *)
(* ties to even.                                                           *)
(***************************************************************************)
Radix == 65536

LimbBits == 16

NumLimbs == 6

Significand == 53

Pow2(n) == 2 ^ n

Limbs == 1 .. NumLimbs

\* The element of a set of one element.  Written The({F(v) : v \in {e}}), it
\* is F(e) with e computed once, whatever the number of places F uses it in.
The(S) == CHOOSE v \in S : TRUE

FZero == [i \in Limbs |-> 0]

\* x < y
FLess(x, y) ==
  \E i \in Limbs : x[i] < y[i] /\ \A j \in 1 .. i - 1 : x[j] = y[j]

\* x + unit of the last place kept, where that place has weight u in limb m.
IncAt(x, m, u) ==
  IF x[m] + u < Radix THEN [x EXCEPT ![m] = @ + u]
  ELSE LET z == CHOOSE k \in 1 .. m - 1 :
                  x[k] # Radix - 1 /\ \A j \in k + 1 .. m - 1 : x[j] = Radix - 1
       IN [i \in Limbs |-> IF i = z THEN x[i] + 1
                           ELSE IF i > z /\ i < m THEN 0
                           ELSE IF i = m THEN x[m] + u - Radix
                           ELSE x[i]]

\* The position, counted in bits from the top of limb 1, of the last of the
\* Significand bits of x # 0: top is its most significant non-zero limb and
\* len the number of bits of that limb.
LastPlace(x) ==
  LET top == CHOOSE k \in Limbs : x[k] # 0 /\ \A j \in 1 .. k - 1 : x[j] = 0
      len == CHOOSE k \in 1 .. LimbBits :
               Pow2(k - 1) <= x[top] /\ x[top] < Pow2(k)
  IN LimbBits * (top - 1) + (LimbBits - len) + Significand

\* x rounded at the bit of weight u in limb m: kept are the digits down to
\* that bit, tail those below, half is half of the unit of that bit.  The
\* result goes up when more than half is cut off, or exactly half and the
\* kept part is odd.
RoundAt(x, sticky, m, u) ==
  The({IF \/ FLess(half, tail)
          \/ tail = half /\ (sticky \/ (x[m] \div u) % 2 = 1)
       THEN IncAt(kept, m, u)
       ELSE kept :
         kept \in {[i \in Limbs |-> IF i < m THEN x[i]
                                    ELSE IF i = m THEN (x[m] \div u) * u
                                    ELSE 0]},
         tail \in {[i \in Limbs |-> IF i < m THEN 0
                                    ELSE IF i = m THEN x[m] % u
                                    ELSE x[i]]},
         half \in {[i \in Limbs |->
                      IF u > 1 /\ i = m THEN u \div 2
                      ELSE IF u = 1 /\ i = m + 1 THEN Radix \div 2
                      ELSE 0]}})

\* Round to nearest, ties to even; sticky tells that the exact value has
\* further non-zero digits beyond the last limb.
RoundNearestEven(x, sticky) ==
  The({IF v = FZero THEN v
       ELSE The({IF last >= LimbBits * NumLimbs THEN v
                 ELSE The({RoundAt(v, sticky, m, u) :
                             m \in {(last - 1) \div LimbBits + 1},
                             u \in {Pow2(LimbBits - 1
                                          - ((last - 1) % LimbBits))}}) :
                   last \in {LastPlace(v)}}) :
         v \in {x}})

\* a / b for integers 0 <= a < Radix * b, b * Radix within the integers.
RECURSIVE DivDigits(_, _, _)
DivDigits(r, b, k) ==
  IF k = 0 THEN << >>
  ELSE << (r * Radix) \div b >> \o DivDigits((r * Radix) % b, b, k - 1)

RECURSIVE DivRest(_, _, _)
DivRest(r, b, k) == IF k = 0 THEN r ELSE DivRest((r * Radix) % b, b, k - 1)

FDiv(a, b) ==
  RoundNearestEven(<< a \div b >> \o DivDigits(a % b, b, NumLimbs - 1),
                   DivRest(a % b, b, NumLimbs - 1) # 0)

\* hi - lo for hi >= lo, exact.
RECURSIVE SubDigits(_, _, _, _)
SubDigits(hi, lo, i, borrow) ==
  IF i = 0 THEN << >>
  ELSE LET d == hi[i] - lo[i] - borrow
       IN Append(SubDigits(hi, lo, i - 1, IF d < 0 THEN 1 ELSE 0),
                 IF d < 0 THEN d + Radix ELSE d)

\* Math.abs(x - y)
FAbsDiff(x, y) ==
  The({RoundNearestEven(IF FLess(v, w) THEN SubDigits(w, v, NumLimbs, 0)
                        ELSE SubDigits(v, w, NumLimbs, 0), FALSE) :
         v \in {x}, w \in {y}})

\* x * n for an integer n with x * n < Radix.
RECURSIVE MulDigits(_, _, _, _)
MulDigits(x, n, i, carry) ==
  IF i = 0 THEN << >>
  ELSE LET d == x[i] * n + carry
       IN Append(MulDigits(x, n, i - 1, d \div Radix), d % Radix)

FMul(x, n) ==
  The({RoundNearestEven(MulDigits(v, n, NumLimbs, 0), FALSE) : v \in {x}})

\* Math.floor
FFloor(x) == x[1]

\* Math.round for x >= 0: halves go up.
FRound(x) == IF x[2] >= Radix \div 2 THEN x[1] + 1 ELSE x[1]

Rect(x, y, w, h) == [x |-> x, y |-> y, width |-> w, height |-> h]

(***************************************************************************)
(* getHsvRange.  The colour channels are 0 .. 255 and every intermediate   *)
(* value is a ratio of small integers, kept as a fraction num / den with   *)
(* den > 0.                                                                *)
(***************************************************************************)
Frac(n, d) == [num |-> n, den |-> d]

FracPlus(a, k) == Frac(a.num + k * a.den, a.den)

FracLeq(a, b) == a.num * b.den <= b.num * a.den

\* Math.max(k, a) and Math.min(k, a) for an integer k
FracMax(k, a) == IF FracLeq(a, Frac(k, 1)) THEN Frac(k, 1) ELSE a

FracMin(k, a) == IF FracLeq(Frac(k, 1), a) THEN Frac(k, 1) ELSE a

\* x % 6 of JavaScript: the remainder has the sign of x.
JsMod6(a) ==
  IF a.num >= 0 THEN Frac(a.num % (6 * a.den), a.den)
  ELSE Frac(-((-a.num) % (6 * a.den)), a.den)

\* The hue in degrees without the line "if (h < 0) h += 360".
HueUnwrapped(rgb) ==
  LET max == Max(rgb[1], Max(rgb[2], rgb[3]))
      min == Min(rgb[1], Min(rgb[2], rgb[3]))
      delta == max - min
  IN IF delta = 0 THEN Frac(0, 1)
     ELSE IF max = rgb[1]
          THEN Frac(60 * JsMod6(Frac(rgb[2] - rgb[3], delta)).num, delta)
     ELSE IF max = rgb[2] THEN Frac(60 * (rgb[3] - rgb[1] + 2 * delta), delta)
     ELSE Frac(60 * (rgb[1] - rgb[2] + 4 * delta), delta)

\* Lines 184-196: the hue in degrees.
Hue(rgb) ==
  LET h == HueUnwrapped(rgb)
  IN IF h.num < 0 THEN FracPlus(h, 360) ELSE h

\* Lines 198-204: the colour on the scale of the library (H 0-180, S and V
\* 0-255).
HsvOf(rgb) ==
  LET max == Max(rgb[1], Max(rgb[2], rgb[3]))
      min == Min(rgb[1], Min(rgb[2], rgb[3]))
      h == Hue(rgb)
  IN << Frac(h.num, 2 * h.den),
        IF max = 0 THEN Frac(0, 1) ELSE Frac(255 * (max - min), max),
        Frac(max, 1) >>

getHsvRange(rgb, tolerance) ==
  LET hsv == HsvOf(rgb)
  IN [lower |-> << FracMax(0, FracPlus(hsv[1], -tolerance.h)),
                   FracMax(0, FracPlus(hsv[2], -tolerance.s)),
                   FracMax(0, FracPlus(hsv[3], -tolerance.v)),
                   Frac(0, 1) >>,
      upper |-> << FracMin(180, FracPlus(hsv[1], tolerance.h)),
                   FracMin(255, FracPlus(hsv[2], tolerance.s)),
                   FracMin(255, FracPlus(hsv[3], tolerance.v)),
                   Frac(255, 1) >>]

(***************************************************************************)
(* calibrateReference, fixed-colour triad version.                         *)
(* An image is given by what the image-processing steps yield on it: its   *)
(* size, the external contours of the MENU_DARK mask in extraction order   *)
(* (area and bounding rectangle), whether cv.imread / the buffer           *)
(* constructors throw (outside the try block), whether cv.cvtColor throws   *)
(* (stepFails) and whether cv.inRange throws (rangeFails).                 *)
(***************************************************************************)
ZeroSpatial ==
  [x |-> 0, y |-> 0, w |-> 0, h |-> 0, cols |-> 1, rows |-> 1,
   aspectNum |-> 0, aspectDen |-> 1]

\* The loop of lines 274-284: the first contour of strictly largest area.
RECURSIVE LargestContour(_, _, _)
LargestContour(contours, i, best) ==
  IF i > Len(contours) THEN best
  ELSE LET cnt == contours[i]
       IN IF cnt.area > best.maxArea
          THEN LargestContour(contours, i + 1,
                 [found |-> TRUE, maxArea |-> cnt.area, rect |-> cnt.rect])
          ELSE LargestContour(contours, i + 1, best)

NoBest == [found |-> FALSE, maxArea |-> 0, rect |-> Rect(0, 0, 0, 0)]

\* The normalized box x = bestRect.x / src.cols, ... kept as numerators over
\* the image's size, and aspectRatio = bestRect.width / bestRect.height.
SpatialOf(rect, cols, rows) ==
  [x |-> rect.x, y |-> rect.y, w |-> rect.width, h |-> rect.height,
   cols |-> cols, rows |-> rows,
   aspectNum |-> rect.width, aspectDen |-> rect.height]

\* if (bestRect && maxArea > 100)
RegionAccepted(best) == best.found /\ best.maxArea > MinArea

calibrateReference(cvAvailable, image) ==
  IF ~cvAvailable THEN [kind |-> "throw", spatial |-> ZeroSpatial]
  ELSE IF image.readFails THEN [kind |-> "throw", spatial |-> ZeroSpatial]
  ELSE IF image.stepFails \/ image.rangeFails
       THEN [kind |-> "profile", spatial |-> ZeroSpatial]
  ELSE LET best == LargestContour(image.contours, 1, NoBest)
       IN IF RegionAccepted(best)
          THEN [kind |-> "profile",
                spatial |-> SpatialOf(best.rect, image.cols, image.rows)]
          ELSE [kind |-> "profile", spatial |-> ZeroSpatial]


(***************************************************************************)
(* calibrateReference, dominant-hue version: no try block, so a throwing   *)
(* step propagates; the region is accepted when maxArea > 0.               *)
(***************************************************************************)
ZeroGeometry ==
  [aspectNum |-> 0, aspectDen |-> 1, coverageNum |-> 0, coverageDen |-> 1,
   width |-> 0, height |-> 0]

\* if (bestRect && maxArea > 0)
RegionAcceptedHue(best) == best.found /\ best.maxArea > 0

calibrateReferenceHue(cvAvailable, image) ==
  IF ~cvAvailable THEN [kind |-> "throw", geometry |-> ZeroGeometry]
  ELSE IF image.readFails \/ image.stepFails \/ image.rangeFails
       THEN [kind |-> "throw", geometry |-> ZeroGeometry]
  ELSE LET best == LargestContour(image.contours, 1, NoBest)
       IN IF RegionAcceptedHue(best)
          THEN [kind |-> "profile",
                geometry |->
                  [aspectNum |-> best.rect.width, aspectDen |-> best.rect.height,
                   coverageNum |-> best.maxArea,
                   coverageDen |-> image.cols * image.rows,
                   width |-> best.rect.width, height |-> best.rect.height]]
          ELSE [kind |-> "profile", geometry |-> ZeroGeometry]

(***************************************************************************)
(* calibrateReference with its buffers: the buffers created during a call  *)
(* and the delete() calls in order, for either version.                    *)
(***************************************************************************)
NoCalBuffers == [created |-> {}, released |-> << >>]

\* src, hsv, mask, contours, hierarchy: created before the try block and
\* released by its finally block (lines 247-251, 301-307).
TriadScoped == << "src", "hsv", "mask", "contours", "hierarchy" >>

\* lowScalar, highScalar: created inside the try block, released after
\* cv.inRange (lines 263-268).
TriadBounds == << "lowScalar", "highScalar" >>

calibrateBuffers(cvAvailable, image) ==
  IF ~cvAvailable \/ image.readFails THEN NoCalBuffers
  ELSE IF image.stepFails
       THEN [created |-> {TriadScoped[k] : k \in 1 .. Len(TriadScoped)},
             released |-> TriadScoped]
  ELSE IF image.rangeFails
       THEN [created |-> {TriadScoped[k] : k \in 1 .. Len(TriadScoped)}
                           \cup {TriadBounds[k] : k \in 1 .. Len(TriadBounds)},
             released |-> TriadScoped]
  ELSE [created |-> {TriadScoped[k] : k \in 1 .. Len(TriadScoped)}
                      \cup {TriadBounds[k] : k \in 1 .. Len(TriadBounds)},
        released |-> TriadBounds \o TriadScoped]

\* roi.delete(); channels.delete(); hue.delete(); sat.delete(); satMask.delete()
HueRoiCleanup == << "roi", "channels", "hue", "sat", "satMask" >>

\* 7. Memory Cleanup: src, hsv, maskFull, lowScalar, highScalar, contours,
\* hierarchy (lines 434-440).
HueCleanup ==
  << "src", "hsv", "maskFull", "lowScalar", "highScalar", "contours",
     "hierarchy" >>

\* The dominant-hue version has no try block: a throwing step ends the call
\* with nothing released that was not released before.
calibrateBuffersHue(cvAvailable, image) ==
  IF ~cvAvailable \/ image.readFails THEN NoCalBuffers
  ELSE IF image.stepFails
       THEN [created |-> {"src", "hsv"}, released |-> << >>]
  ELSE IF image.rangeFails
       THEN [created |-> {"src", "hsv", "maskFull", "lowScalar", "highScalar"}
                           \cup {HueRoiCleanup[k] : k \in 1 .. Len(HueRoiCleanup)},
             released |-> HueRoiCleanup]
  ELSE [created |-> {HueCleanup[k] : k \in 1 .. Len(HueCleanup)}
                      \cup {HueRoiCleanup[k] : k \in 1 .. Len(HueRoiCleanup)},
        released |-> HueRoiCleanup \o HueCleanup]

(***************************************************************************)
(* calculateIoU: the ratio interArea / unionArea as a pair, 0 as 0/1.      *)
(***************************************************************************)
calculateIoU(rectA, rectB) ==
  LET xA == Max(rectA.x, rectB.x)
      yA == Max(rectA.y, rectB.y)
      xB == Min(rectA.x + rectA.width, rectB.x + rectB.width)
      yB == Min(rectA.y + rectA.height, rectB.y + rectB.height)
      interW == Max(0, xB - xA)
      interH == Max(0, yB - yA)
      interArea == interW * interH
      areaA == rectA.width * rectA.height
      areaB == rectB.width * rectB.height
      unionArea == areaA + areaB - interArea
  IN IF interW <= 0 \/ interH <= 0 THEN [num |-> 0, den |-> 1]
     ELSE IF unionArea > 0 THEN [num |-> interArea, den |-> unionArea]
     ELSE [num |-> 0, den |-> 1]

\* if (iou < 0.3) continue
SpatialReject(iou) == 10 * iou.num < 3 * iou.den

\* The normalizedBox of a template: bestRect.x / src.cols, ... as doubles.
NormalizedBox(spatial) ==
  [x |-> FDiv(spatial.x, spatial.cols), y |-> FDiv(spatial.y, spatial.rows),
   w |-> FDiv(spatial.w, spatial.cols), h |-> FDiv(spatial.h, spatial.rows)]

\* Math.floor(nb.x * fw), ... : the template projected onto the frame.
ExpectedRect(spatial, fw, fh) ==
  The({Rect(FFloor(FMul(nb.x, fw)), FFloor(FMul(nb.y, fh)),
            FFloor(FMul(nb.w, fw)), FFloor(FMul(nb.h, fh))) :
         nb \in {NormalizedBox(spatial)}})

\* lightRatio > 0.01 && whiteRatio > 0.01, with ratio = count / area
TriadPasses(cand) ==
  LET area == cand.rect.width * cand.rect.height
  IN 100 * cand.lightCount > area /\ 100 * cand.whiteCount > area

(***************************************************************************)
(* scanFrame, overlap version (the one processVideo of part_001 calls with *)
(* debugMode = true).  A frame is given by its size, the candidates of the *)
(* MENU_DARK mask in extraction order (bounding rectangle, number of       *)
(* light-range and white-range pixels in it, whether hsv.roi throws on it,  *)
(* whether cv.inRange throws on its light range), and whether an outer     *)
(* step throws.                                                            *)
(* The loop of lines 80-151: a candidate below the IoU threshold or whose  *)
(* content check throws or fails is skipped; the first that passes ends    *)
(* the loop.                                                               *)
(***************************************************************************)
RECURSIVE ScanCandidates(_, _, _)
ScanCandidates(cands, i, expectedRect) ==
  IF i > Len(cands) THEN FALSE
  ELSE LET cand == cands[i]
           iou == calculateIoU(cand.rect, expectedRect)
       IN IF SpatialReject(iou) THEN ScanCandidates(cands, i + 1, expectedRect)
          ELSE IF cand.roiFails \/ cand.lightFails
               THEN ScanCandidates(cands, i + 1, expectedRect)
          ELSE IF TriadPasses(cand) THEN TRUE
          ELSE ScanCandidates(cands, i + 1, expectedRect)

\* The buffers released on the match path (lines 130-133) and the references
\* cleared there (line 135); the finally block releases every reference that
\* is still set (lines 164-170).
DeletedOnMatch ==
  {"maskLight", "maskWhite", "lowL", "highL", "lowW", "highW", "roi"}

ClearedOnMatch == {"maskLight", "maskWhite", "roi"}

ReleasedTwiceOnMatch == DeletedOnMatch \ ClearedOnMatch

\* The verdict, and the buffers whose delete() is called a second time.
scanFrame(cvAvailable, frame, spatial) ==
  IF ~cvAvailable THEN [detected |-> FALSE, redeleted |-> {}]
  ELSE IF frame.cvFails THEN [detected |-> FALSE, redeleted |-> {}]
  ELSE The({[detected |-> detected,
             redeleted |-> IF detected THEN ReleasedTwiceOnMatch ELSE {}] :
              detected \in
                {\E expectedRect \in
                      {ExpectedRect(spatial, frame.cols, frame.rows)} :
                    ScanCandidates(frame.cands, 1, expectedRect)}})


(***************************************************************************)
(* scanFrame with its buffers.  The overlap and the deviation version      *)
(* share their structure and differ in the spatial filter.  A buffer is a  *)
(* pair << name, i >>: the buffer that the variable name received for      *)
(* candidate i (0 for the buffers of the outer steps).  The call is walked *)
(* statement by statement; the result tells which buffers were created,    *)
(* the delete() calls in order, the verdict and whether the call raised.   *)
(***************************************************************************)
OuterNames == << "hsv", "maskDark", "contours", "hierarchy", "lowP", "highP" >>

InnerNames ==
  << "roi", "maskLight", "maskWhite", "lowL", "highL", "lowW", "highW" >>

\* maskLight.delete(); maskWhite.delete(); lowL.delete(); ... roi.delete()
MatchCleanup ==
  << "maskLight", "maskWhite", "lowL", "highL", "lowW", "highW", "roi" >>

SeqRange(q) == {q[k] : k \in 1 .. Len(q)}

\* let hsv = null, ... : no variable holds a buffer.
NoBuffers ==
  [held |-> [n \in SeqRange(OuterNames) \cup SeqRange(InnerNames) |-> {}],
   created |-> {}, log |-> << >>, detected |-> FALSE, raised |-> FALSE]

\* name = new cv.Mat(...) for each name of names, for candidate i.
Allocate(m, names, i) ==
  [m EXCEPT !.held = [n \in DOMAIN @ |-> IF n \in names THEN {i} ELSE @[n]],
            !.created = @ \cup {<< n, i >> : n \in names}]

\* name = null for each name of names.
ClearRefs(m, names) ==
  [m EXCEPT !.held = [n \in DOMAIN @ |-> IF n \in names THEN {} ELSE @[n]]]

\* if (name) name.delete(): a second delete() of a buffer raises when the
\* library is strict, and is recorded otherwise; after a raise nothing runs.
DeleteRef(m, n, strict) ==
  IF m.raised \/ m.held[n] = {} THEN m
  ELSE LET b == << n, CHOOSE i \in m.held[n] : TRUE >>
       IN IF strict /\ b \in SeqRange(m.log)
          THEN [m EXCEPT !.raised = TRUE]
          ELSE [m EXCEPT !.log = Append(@, b)]

RECURSIVE DeleteAll(_, _, _, _)
DeleteAll(m, names, k, strict) ==
  IF k > Len(names) THEN m
  ELSE DeleteAll(DeleteRef(m, names[k], strict), names, k + 1, strict)

\* if (xDiff > 0.15 || yDiff > 0.15 || wDiff > 0.15 || hDiff > 0.15), with
\* normX = rect.x / srcFrame.cols, xDiff = Math.abs(normX - target.x), ...
DeviationReject(rect, fw, fh, spatial) ==
  \E target \in {NormalizedBox(spatial)}, limit \in {FDiv(15, 100)} :
     \/ FLess(limit, FAbsDiff(FDiv(rect.x, fw), target.x))
     \/ FLess(limit, FAbsDiff(FDiv(rect.y, fh), target.y))
     \/ FLess(limit, FAbsDiff(FDiv(rect.width, fw), target.w))
     \/ FLess(limit, FAbsDiff(FDiv(rect.height, fh), target.h))

\* The spatial filter of the version named by policy.
SpatialFilterRejects(policy, cand, frame, spatial) ==
  IF policy = "overlap"
  THEN SpatialReject(calculateIoU(cand.rect,
                       ExpectedRect(spatial, frame.cols, frame.rows)))
  ELSE DeviationReject(cand.rect, frame.cols, frame.rows, spatial)

\* The content check of candidate i (the inner try block): the crop, the
\* light range, the white range, then the match cleanup and break, or the
\* cleanup of a candidate that did not match.  A throw leaves the variables
\* as they are (the inner catch only logs).
ContentCheck(m, cand, i, strict) ==
  IF cand.roiFails THEN m
  ELSE LET m1 == Allocate(m, {"roi", "lowL", "highL", "maskLight"}, i)
       IN IF cand.lightFails THEN m1
          ELSE LET m2 == Allocate(m1, {"lowW", "highW", "maskWhite"}, i)
               IN IF TriadPasses(cand)
                  THEN [ClearRefs(DeleteAll(m2, MatchCleanup, 1, strict),
                                  ClearedOnMatch)
                          EXCEPT !.detected = TRUE]
                  ELSE ClearRefs(DeleteAll(m2, MatchCleanup, 1, strict),
                                 SeqRange(InnerNames))

\* for (let i = 0; i < contours.size(); ++i) { ... }
RECURSIVE CandidateLoop(_, _, _, _, _, _)
CandidateLoop(m, policy, frame, spatial, i, strict) ==
  IF i > Len(frame.cands) \/ m.detected THEN m
  ELSE IF SpatialFilterRejects(policy, frame.cands[i], frame, spatial)
       THEN CandidateLoop(m, policy, frame, spatial, i + 1, strict)
       ELSE CandidateLoop(ContentCheck(m, frame.cands[i], i, strict),
                          policy, frame, spatial, i + 1, strict)

\* The whole call: the outer try, then the finally block.
scanFrameBuffers(policy, cvAvailable, frame, spatial, strict) ==
  IF ~cvAvailable THEN NoBuffers
  ELSE LET body ==
             IF frame.cvFails THEN Allocate(NoBuffers, {"hsv"}, 0)
             ELSE CandidateLoop(Allocate(NoBuffers, SeqRange(OuterNames), 0),
                                policy, frame, spatial, 1, strict)
       IN DeleteAll(body, OuterNames \o InnerNames, 1, strict)

(***************************************************************************)
(* The inputs of the orchestrators: reference images and videos.           *)
(***************************************************************************)
\* A reference screenshot with a solid dark rectangle at (0.1, 0.1, 0.3, 0.2).
ImgMenu ==
  [cols |-> 1280, rows |-> 720,
   contours |-> << [area |-> 55296, rect |-> Rect(128, 72, 384, 144)] >>,
   readFails |-> FALSE, stepFails |-> FALSE, rangeFails |-> FALSE]

\* A reference screenshot with no region of the background colour.
ImgBlank ==
  [cols |-> 1280, rows |-> 720, contours |-> << >>,
   readFails |-> FALSE, stepFails |-> FALSE, rangeFails |-> FALSE]

\* An image on which cv.imread throws.
ImgBad ==
  [cols |-> 1280, rows |-> 720, contours |-> << >>,
   readFails |-> TRUE, stepFails |-> FALSE, rangeFails |-> FALSE]

OrchImages == {ImgMenu, ImgBlank, ImgBad}

\* A video shows the menu at the times t with menuFrom <= t < menuTo.
VideoOf(d, from, to) ==
  [duration |-> d, menuFrom |-> from, menuTo |-> to,
   videoWidth |-> 1280, videoHeight |-> 720]

Videos ==
  { VideoOf(0, 0, 0),
    VideoOf(MaxDur, Interval, Interval + 1),
    VideoOf(MaxDur - 1, 0, MaxDur) }

NoVideo ==
  [duration |-> 0, menuFrom |-> 0, menuTo |-> 0,
   videoWidth |-> 0, videoHeight |-> 0]

\* canvas.width = processWidth; canvas.height = video.videoHeight * scale
ProcessHeight(v) == (v.videoHeight * ProcessWidth) \div v.videoWidth

\* The pixels drawn from the video element at position t.
FrameAt(v, t) ==
  [cols |-> ProcessWidth, rows |-> ProcessHeight(v),
   cands |-> IF v.menuFrom <= t /\ t < v.menuTo
             THEN << [rect |-> Rect(64, 36, 192, 72), lightCount |-> 700,
                      whiteCount |-> 300, roiFails |-> FALSE,
                      lightFails |-> FALSE] >>
             ELSE << >>,
   cvFails |-> FALSE]

(***************************************************************************)
(* State.                                                                  *)
(***************************************************************************)
VARIABLES
  cvLoaded,    \* typeof cv !== 'undefined'
  strictDelete,\* the library raises when a released buffer is released again
  mounted,     \* the component is mounted
  state,       \* the React state: isProcessing, progress, status, detections
  statusLog,   \* the statuses written by the last step, in order
  writers,     \* the sessions whose code updated the state in the last step
  nSessions,   \* the number of sessions started so far
  abortRef,    \* abortControllerRef.current (a session, 0 for null)
  aborted,     \* signal.aborted of each session's controller
  sess,        \* the locals of each processVideo invocation
  video,       \* the shared hidden video element
  calIn,       \* calibration check: the input image
  calOut,      \* calibration check: the results of both versions
  scanIn,      \* scanner check: the frame and the template
  scanOut,     \* scanner check: the outcome of each version
  wAlive,      \* worker orchestrator: mounted, the worker not terminated
  wState,      \* worker orchestrator: the React state
  wN,          \* worker orchestrator: the number of processVideo calls so far
  wSess,       \* worker orchestrator: the locals of each invocation
  wVideo,      \* worker orchestrator: the shared hidden video element
  wMsgListeners, \* the 'message' listeners on the worker, in registration order
  inbox,       \* messages posted to the worker, not yet handled by it
  outbox,      \* messages posted by the worker, not yet dispatched
  wProfile,    \* the profile the worker holds
  wStep        \* what the last step did: event, posts, appends, advances

coopVars ==
  << cvLoaded, strictDelete, mounted, state, statusLog, writers, nSessions, abortRef,
     aborted, sess, video >>

calVars == << calIn, calOut >>

workVars ==
  << wAlive, wState, wN, wSess, wVideo, wMsgListeners, inbox, outbox, wProfile,
     wStep >>

scanVars == << scanIn, scanOut >>

notCoop == << calVars, workVars, scanVars >>

vars == << coopVars, calVars, workVars, scanVars >>

Sessions == 1 .. MaxSessions

InitialState ==
  [isProcessing |-> FALSE, progress |-> 0, status |-> "idle",
   detections |-> << >>]

NoSession ==
  [pc |-> "none", img |-> ImgBlank, vid |-> NoVideo, spatial |-> ZeroSpatial,
   duration |-> 0, currentTime |-> 0, newDetections |-> << >>,
   frames |-> << >>]

\* An invocation that has returned at an abort check: its locals are gone.
Returned == [NoSession EXCEPT !.pc = "done"]

InitialVideo ==
  [src |-> NoVideo, loading |-> FALSE, owner |-> 0, seeking |-> FALSE,
   seekTarget |-> 0, pos |-> 0, listeners |-> << >>]

NoCalOut ==
  [triad |-> [kind |-> "none", spatial |-> ZeroSpatial],
   hue |-> [kind |-> "none", geometry |-> ZeroGeometry],
   triadBuffers |-> NoCalBuffers, hueBuffers |-> NoCalBuffers]

CoopInit ==
  /\ cvLoaded \in BOOLEAN
  /\ strictDelete \in BOOLEAN
  /\ mounted = TRUE
  /\ state = InitialState
  /\ statusLog = << >>
  /\ writers = {}
  /\ nSessions = 0
  /\ abortRef = 0
  /\ aborted = [s \in Sessions |-> FALSE]
  /\ sess = [s \in Sessions |-> NoSession]
  /\ video = InitialVideo

CalIdle == calIn = ImgBlank /\ calOut = NoCalOut

NoScanOut == [kind |-> "none"]

ScanIdle ==
  /\ scanIn = [frame |-> FrameAt(VideoOf(0, 0, 0), 0), spatial |-> ZeroSpatial]
  /\ scanOut = [overlap |-> NoScanOut, deviation |-> NoScanOut]

NoWorkerSession ==
  [pc |-> "none", img |-> ImgBlank, vid |-> NoVideo, duration |-> 0,
   currentTime |-> 0, prior |-> InitialState, rest |-> TRUE]

NoProfile == [kind |-> "none", spatial |-> ZeroSpatial]

NoStep ==
  [event |-> "none", posts |-> 0, appends |-> 0, advanced |-> << >>,
   ops |-> << >>]

\* The worker orchestrator after its effect has run: the refs are set, the
\* worker exists, nothing has been posted.
WorkIdle ==
  /\ wAlive = TRUE
  /\ wState = InitialState
  /\ wN = 0
  /\ wSess = [s \in Sessions |-> NoWorkerSession]
  /\ wVideo = InitialVideo
  /\ wMsgListeners = << >>
  /\ inbox = << >>
  /\ outbox = << >>
  /\ wProfile = NoProfile
  /\ wStep = NoStep

(***************************************************************************)
(* The cooperative orchestrator.  One action per synchronous segment of    *)
(* processVideo (from one await to the next) and per event of the host.    *)
(***************************************************************************)
\* A catch block that forgets isProcessing.
SetErrorKeepsProcessing(st) == [st EXCEPT !.status = "error"]

\* catch: setState(prev => ({ ...prev, status: 'error', isProcessing: false }))
SetError(st) == [st EXCEPT !.status = "error", !.isProcessing = FALSE]

\* A completion that leaves the processing flag up.
SetCompletedStillProcessing(st) ==
  [st EXCEPT !.status = "completed", !.progress = 100]

\* setState(prev => ({ ...prev, status: 'completed', progress: 100, ... }))
SetCompleted(st) ==
  [st EXCEPT !.status = "completed", !.progress = 100, !.isProcessing = FALSE]

\* Reset State: setState({ isProcessing: true, progress: 0, ... })
ResetState(st) ==
  [isProcessing |-> TRUE, progress |-> 0, status |-> "initializing",
   detections |-> << >>]

\* A session start that leaves the previous controller alone.
AbortPreviousSkipped(ab, ref) == ab

\* if (abortControllerRef.current) abortControllerRef.current.abort()
AbortPrevious(ab, ref) ==
  IF ref # 0 THEN [ab EXCEPT ![ref] = TRUE] ELSE ab

\* Checkpoints that never see the abort.
SignalNeverSeen(ab, s) == FALSE

\* signal.aborted, as read at the checks of lines 94, 116, 135, 147, 184, 194
SignalAborted(ab, s) == ab[s]

\* Math.min(100, Math.round((currentTime / duration) * 100))
Progress(t, d) == Min(100, FRound(FMul(FDiv(t, d), 100)))

\* while (currentTime < duration)
LoopContinues(t, d) == t < d

\* currentTime += interval
Advance(t) == t + Interval

\* An event stamped with the next sample's time.
PushDetectionLate(dets, t) ==
  Append(dets, [timestamp |-> t + Interval, confidence |-> 1])

\* newDetections.push({ timestamp: currentTime, confidence: 1.0 })
PushDetection(dets, t) == Append(dets, [timestamp |-> t, confidence |-> 1])

\* processVideo while cv is undefined: the status alone is set to error.
ProcessVideoNoCv ==
  /\ mounted
  /\ ~cvLoaded
  /\ state' = [state EXCEPT !.status = "error"]
  /\ statusLog' = << "error" >>
  /\ writers' = {}
  /\ UNCHANGED << cvLoaded, strictDelete, mounted, nSessions, abortRef, aborted, sess, video >>
  /\ UNCHANGED notCoop

\* processVideo up to the await of the reference image's load (lines 57-92).
ProcessVideo(i, v) ==
  /\ mounted
  /\ cvLoaded
  /\ nSessions < MaxSessions
  /\ LET s == nSessions + 1
     IN /\ nSessions' = s
        /\ state' = [ResetState(state) EXCEPT !.status = "calibrating"]
        /\ statusLog' = << ResetState(state).status, "calibrating" >>
        /\ writers' = {s}
        /\ aborted' = AbortPrevious(aborted, abortRef)
        /\ abortRef' = s
        /\ sess' = [sess EXCEPT ![s] =
                      [NoSession EXCEPT !.pc = "awaitImage", !.img = i, !.vid = v]]
  /\ UNCHANGED << cvLoaded, strictDelete, mounted, video, notCoop >>

\* A seek whose 'seeked' listener is never registered.
SeekUnheard(vd, s, t) == [vd EXCEPT !.seeking = TRUE, !.seekTarget = t]

\* A wait for 'seeked' without setting video.currentTime.
SeekElsewhere(vd, s, t) ==
  [vd EXCEPT !.seeking = TRUE, !.listeners = Append(@, s)]

\* The seek of lines 138-145.
Seek(vd, s, t) ==
  [vd EXCEPT !.seeking = TRUE, !.seekTarget = t,
             !.listeners = Append(@, s)]

\* referenceImage.onload, then lines 94-114 up to the await of the video's load.
ImageLoaded(s, ctxOk) ==
  /\ sess[s].pc = "awaitImage"
  /\ IF SignalAborted(aborted, s)
     THEN /\ sess' = [sess EXCEPT ![s] = Returned]
          /\ statusLog' = << >>
          /\ writers' = {}
          /\ UNCHANGED << state, video >>
     ELSE LET r == calibrateReference(cvLoaded, sess[s].img)
          IN IF r.kind = "throw"
             THEN /\ state' = SetError(state)
                  /\ statusLog' = << "error" >>
                  /\ writers' = {s}
                  /\ sess' = [sess EXCEPT ![s].pc = "failed"]
                  /\ UNCHANGED video
             ELSE IF ~ctxOk
             THEN /\ state' = SetError([state EXCEPT !.status = "processing"])
                  /\ statusLog' = << "processing", "error" >>
                  /\ writers' = {s}
                  /\ sess' = [sess EXCEPT ![s].pc = "failed",
                                          ![s].spatial = r.spatial]
                  /\ UNCHANGED video
             ELSE /\ state' = [state EXCEPT !.status = "processing"]
                  /\ statusLog' = << "processing" >>
                  /\ writers' = {s}
                  /\ sess' = [sess EXCEPT ![s].pc = "awaitVideo",
                                          ![s].spatial = r.spatial]
                  /\ video' = [video EXCEPT !.src = sess[s].vid,
                                            !.loading = TRUE, !.owner = s,
                                            !.seeking = FALSE, !.pos = 0]
  /\ UNCHANGED << cvLoaded, strictDelete, mounted, nSessions, abortRef, aborted, notCoop >>

\* referenceImage.onerror: the promise rejects, the catch block runs.
ImageError(s) ==
  /\ sess[s].pc = "awaitImage"
  /\ IF SignalAborted(aborted, s)
     THEN /\ sess' = [sess EXCEPT ![s] = Returned]
          /\ statusLog' = << >>
          /\ writers' = {}
          /\ UNCHANGED state
     ELSE /\ sess' = [sess EXCEPT ![s].pc = "failed"]
          /\ state' = SetError(state)
          /\ statusLog' = << "error" >>
          /\ writers' = {s}
  /\ UNCHANGED << cvLoaded, strictDelete, mounted, nSessions, abortRef, aborted, video, notCoop >>


\* The head of the scan loop (lines 134-145) and what follows the loop
\* (lines 184-191), for a session whose locals are rec.
LoopTop(s, rec, st, vd) ==
  IF LoopContinues(rec.currentTime, rec.duration)
  THEN IF SignalAborted(aborted, s)
       THEN [st |-> st, rec |-> Returned, vd |-> vd,
             log |-> << >>, wr |-> {}]
       ELSE [st |-> st, rec |-> [rec EXCEPT !.pc = "awaitSeek"],
             vd |-> Seek(vd, s, rec.currentTime), log |-> << >>, wr |-> {}]
  ELSE IF ~SignalAborted(aborted, s)
       THEN [st |-> SetCompleted(st), rec |-> [rec EXCEPT !.pc = "done"],
             vd |-> vd, log |-> << "completed" >>, wr |-> {s}]
       ELSE [st |-> st, rec |-> Returned, vd |-> vd,
             log |-> << >>, wr |-> {}]

\* video.onloadeddata: the owner of the handler resumes at line 116.
VideoLoaded ==
  /\ video.loading
  /\ LET s == video.owner
         vd == [video EXCEPT !.loading = FALSE]
     IN IF s = 0 \/ sess[s].pc # "awaitVideo"
        THEN /\ video' = vd
             /\ statusLog' = << >>
             /\ writers' = {}
             /\ UNCHANGED << state, sess >>
        ELSE IF SignalAborted(aborted, s)
        THEN /\ video' = vd
             /\ sess' = [sess EXCEPT ![s] = Returned]
             /\ statusLog' = << >>
             /\ writers' = {}
             /\ UNCHANGED state
        ELSE \E r \in {LoopTop(s, [sess[s] EXCEPT !.duration = vd.src.duration,
                                                   !.currentTime = 0],
                                state, vd)} :
                /\ video' = r.vd
                /\ sess' = [sess EXCEPT ![s] = r.rec]
                /\ state' = r.st
                /\ statusLog' = r.log
                /\ writers' = r.wr
  /\ UNCHANGED << cvLoaded, strictDelete, mounted, nSessions, abortRef, aborted, notCoop >>

\* video.onerror while loading: the owner's promise rejects, the catch runs.
VideoError ==
  /\ video.loading
  /\ video' = [video EXCEPT !.loading = FALSE]
  /\ LET s == video.owner
     IN IF s = 0 \/ sess[s].pc # "awaitVideo"
        THEN /\ statusLog' = << >>
             /\ writers' = {}
             /\ UNCHANGED << state, sess >>
        ELSE IF SignalAborted(aborted, s)
             THEN /\ sess' = [sess EXCEPT ![s] = Returned]
                  /\ statusLog' = << >>
                  /\ writers' = {}
                  /\ UNCHANGED state
             ELSE /\ sess' = [sess EXCEPT ![s].pc = "failed"]
                  /\ state' = SetError(state)
                  /\ statusLog' = << "error" >>
                  /\ writers' = {s}
  /\ UNCHANGED << cvLoaded, strictDelete, mounted, nSessions, abortRef, aborted, notCoop >>

\* A frame read by drawImage / getImageData (lines 150-153): the element's
\* position and whether a seek was pending at the time, the loop's timestamp,
\* whether an event was recorded for it, and how often its Mat was released
\* (mat.delete(), line 160).
FrameRead(vd, rec, recorded, deletes) ==
  [pos |-> vd.pos, pending |-> vd.seeking, stamp |-> rec.currentTime,
   recorded |-> recorded, matDeletes |-> deletes]

\* Lines 147-178 for session s, resumed by the 'seeked' event: the frame at
\* the element's position is drawn, scanned and recorded.  readThrows says
\* whether drawImage / getImageData / cv.matFromImageData throws.  When the
\* library raises on a second release, scanFrame's finally block throws on
\* the match path and the mat.delete() of line 160 is not reached.  Either
\* way the catch block of processVideo runs.
AfterSeek(s, e, vd, readThrows) ==
  LET rec == e.ss[s]
  IN
  IF rec.pc # "awaitSeek" THEN e
  ELSE IF SignalAborted(aborted, s)
  THEN [e EXCEPT !.ss[s] = Returned]
  ELSE The({
         IF readThrows
         THEN [st |-> SetError(e.st),
               ss |-> [e.ss EXCEPT ![s].pc = "failed"],
               log |-> Append(e.log, "error"), wr |-> e.wr \cup {s}]
         ELSE IF r.redeleted # {} /\ strictDelete
         THEN [st |-> SetError(e.st),
               ss |-> [e.ss EXCEPT ![s].pc = "failed",
                                   ![s].frames =
                                     Append(@, FrameRead(vd, rec, FALSE, 0))],
               log |-> Append(e.log, "error"), wr |-> e.wr \cup {s}]
         ELSE LET dets == IF r.detected
                          THEN PushDetection(rec.newDetections, rec.currentTime)
                          ELSE rec.newDetections
                  st1 == IF r.detected
                         THEN [e.st EXCEPT !.detections = dets]
                         ELSE e.st
                  st2 == [st1 EXCEPT !.progress =
                                       Progress(rec.currentTime, rec.duration)]
              IN [st |-> st2,
                  ss |-> [e.ss EXCEPT ![s].pc = "awaitYield",
                                      ![s].newDetections = dets,
                                      ![s].frames =
                                        Append(@, FrameRead(vd, rec,
                                                            r.detected, 1))],
                  log |-> e.log, wr |-> e.wr \cup {s}] :
         r \in {scanFrame(cvLoaded, FrameAt(vd.src, vd.pos), rec.spatial)}})

\* The 'seeked' listeners run in registration order.
RECURSIVE RunSeekedListeners(_, _, _, _, _)
RunSeekedListeners(ls, i, e, vd, readThrows) ==
  IF i > Len(ls) THEN e
  ELSE The({RunSeekedListeners(ls, i + 1, next, vd, readThrows) :
              next \in {AfterSeek(ls[i], e, vd, readThrows)}})

\* The decoder confirms the pending seek: 'seeked' fires, every listener
\* removes itself and resumes its session.
Seeked(readThrows) ==
  /\ video.seeking
  /\ \E vd \in {[video EXCEPT !.seeking = FALSE, !.pos = video.seekTarget,
                              !.listeners = << >>]} :
     \E e \in {RunSeekedListeners(video.listeners, 1,
                 [st |-> state, ss |-> sess, log |-> << >>, wr |-> {}],
                 vd, readThrows)} :
        /\ video' = vd
        /\ state' = e.st
        /\ sess' = e.ss
        /\ statusLog' = e.log
        /\ writers' = e.wr
  /\ UNCHANGED << cvLoaded, strictDelete, mounted, nSessions, abortRef, aborted, notCoop >>

\* The timer of line 178 fires: the cursor advances, the loop continues.
Timer(s) ==
  /\ sess[s].pc = "awaitYield"
  /\ \E r \in {LoopTop(s, [sess[s] EXCEPT !.currentTime = Advance(@)],
                      state, video)} :
        /\ video' = r.vd
        /\ sess' = [sess EXCEPT ![s] = r.rec]
        /\ state' = r.st
        /\ statusLog' = r.log
        /\ writers' = r.wr
  /\ UNCHANGED << cvLoaded, strictDelete, mounted, nSessions, abortRef, aborted, notCoop >>

\* The effect's cleanup (lines 44-54).
Unmount ==
  /\ mounted
  /\ mounted' = FALSE
  /\ video' = [video EXCEPT !.src = NoVideo, !.loading = FALSE,
                            !.seeking = FALSE]
  /\ aborted' = AbortPrevious(aborted, abortRef)
  /\ statusLog' = << >>
  /\ writers' = {}
  /\ UNCHANGED << cvLoaded, strictDelete, state, nSessions, abortRef, sess, notCoop >>

\* The OpenCV script finishes loading.
LoadCv ==
  /\ ~cvLoaded
  /\ cvLoaded' = TRUE
  /\ statusLog' = << >>
  /\ writers' = {}
  /\ UNCHANGED << strictDelete, mounted, state, nSessions, abortRef, aborted,
                  sess, video, notCoop >>

Next ==
  \/ ProcessVideoNoCv
  \/ \E i \in OrchImages, v \in Videos : ProcessVideo(i, v)
  \/ \E s \in Sessions, ctxOk \in BOOLEAN : ImageLoaded(s, ctxOk)
  \/ \E s \in Sessions : ImageError(s)
  \/ VideoLoaded
  \/ VideoError
  \/ \E readThrows \in BOOLEAN : Seeked(readThrows)
  \/ \E s \in Sessions : Timer(s)
  \/ Unmount
  \/ LoadCv

Init == CoopInit /\ CalIdle /\ WorkIdle /\ ScanIdle

Spec == Init /\ [][Next]_vars


(***************************************************************************)
(* The profile builder on its own: both versions of calibrateReference     *)
(* applied to a bounded family of reference images.                        *)
(***************************************************************************)
CalContours ==
  { [area |-> 0, rect |-> Rect(5, 5, 1, 40)],
    [area |-> MinArea, rect |-> Rect(10, 10, 10, 10)],
    [area |-> MinArea + 1, rect |-> Rect(20, 20, 101, 1)],
    [area |-> 55296, rect |-> Rect(128, 72, 384, 144)] }

RECURSIVE SeqsUpTo(_, _)
SeqsUpTo(S, n) ==
  IF n = 0 THEN {<< >>}
  ELSE LET shorter == SeqsUpTo(S, n - 1)
       IN shorter \cup {Append(q, x) : q \in shorter, x \in S}

CalImages ==
  { [cols |-> 1280, rows |-> 720, contours |-> cs,
     readFails |-> f[1], stepFails |-> f[2], rangeFails |-> f[3]] :
       cs \in SeqsUpTo(CalContours, MaxContours),
       f \in {<< FALSE, FALSE, FALSE >>, << TRUE, FALSE, FALSE >>,
              << FALSE, TRUE, FALSE >>, << FALSE, FALSE, TRUE >>} }

CalInit ==
  /\ CoopInit
  /\ calIn \in CalImages
  /\ calOut = NoCalOut
  /\ WorkIdle
  /\ ScanIdle

CalibrateTriad ==
  /\ calOut.triad.kind = "none"
  /\ calOut' = [calOut EXCEPT
                  !.triad = calibrateReference(cvLoaded, calIn),
                  !.triadBuffers = calibrateBuffers(cvLoaded, calIn)]
  /\ UNCHANGED << calIn, coopVars, workVars, scanVars >>

CalibrateHue ==
  /\ calOut.hue.kind = "none"
  /\ calOut' = [calOut EXCEPT
                  !.hue = calibrateReferenceHue(cvLoaded, calIn),
                  !.hueBuffers = calibrateBuffersHue(cvLoaded, calIn)]
  /\ UNCHANGED << calIn, coopVars, workVars, scanVars >>

CalNext == CalibrateTriad \/ CalibrateHue

SpecCalib == CalInit /\ [][CalNext]_vars

(***************************************************************************)
(* getHsvRange on its own, applied to a bounded family of RGB samples and  *)
(* tolerances: the colours of TARGET_COLORS, the ends of the channel range *)
(* and values between; the default tolerance, the one calibrateReference   *)
(* passes, none, and one wider than the channel ranges.                    *)
(***************************************************************************)
ChannelValues == {0, 1, 4, 14, 49, 50, 127, 128, 139, 254, 255}

Samples == ChannelValues \X ChannelValues \X ChannelValues

Tolerances ==
  { [h |-> 10, s |-> 40, v |-> 40], [h |-> 10, s |-> 50, v |-> 50],
    [h |-> 0, s |-> 0, v |-> 0], [h |-> 200, s |-> 300, v |-> 300] }

HsvInit ==
  /\ CoopInit
  /\ cvLoaded
  /\ ~strictDelete
  /\ WorkIdle
  /\ ScanIdle
  /\ calIn \in [rgb : Samples, tolerance : Tolerances]
  /\ calOut = [kind |-> "none"]

HsvRange ==
  /\ calOut.kind = "none"
  /\ calOut' = [kind |-> "done", range |-> getHsvRange(calIn.rgb, calIn.tolerance)]
  /\ UNCHANGED << calIn, coopVars, workVars, scanVars >>

HsvNext == HsvRange

SpecHsv == HsvInit /\ [][HsvNext]_vars

(***************************************************************************)
(* The frame scanner on its own: the overlap and the deviation version of  *)
(* scanFrame applied to a bounded family of frames and templates, with the *)
(* library present or not, strict about a second delete() or not.          *)
(***************************************************************************)
MenuRect == Rect(64, 36, 192, 72)

Candidate(rect, light, white, roiFails, lightFails) ==
  [rect |-> rect, lightCount |-> light, whiteCount |-> white,
   roiFails |-> roiFails, lightFails |-> lightFails]

ScanCands ==
  { Candidate(MenuRect, 700, 300, FALSE, FALSE),
    Candidate(Rect(400, 200, 100, 50), 700, 300, FALSE, FALSE),
    Candidate(MenuRect, 0, 300, FALSE, FALSE),
    Candidate(MenuRect, 700, 300, TRUE, FALSE),
    Candidate(MenuRect, 700, 300, FALSE, TRUE) }

ScanFrames ==
  { [cols |-> ProcessWidth, rows |-> 360, cands |-> cs, cvFails |-> f] :
      cs \in SeqsUpTo(ScanCands, MaxCands), f \in BOOLEAN }

ScanTemplates == {calibrateReference(TRUE, ImgMenu).spatial, ZeroSpatial}

ScanInit ==
  /\ CoopInit
  /\ CalIdle
  /\ WorkIdle
  /\ scanIn \in [frame : ScanFrames, spatial : ScanTemplates]
  /\ scanOut = [overlap |-> NoScanOut, deviation |-> NoScanOut]

ScanOverlap ==
  /\ scanOut.overlap.kind = "none"
  /\ scanOut' = [scanOut EXCEPT !.overlap =
                   [kind |-> "done",
                    r |-> scanFrameBuffers("overlap", cvLoaded, scanIn.frame,
                                           scanIn.spatial, strictDelete)]]
  /\ UNCHANGED << scanIn, coopVars, calVars, workVars >>

ScanDeviation ==
  /\ scanOut.deviation.kind = "none"
  /\ scanOut' = [scanOut EXCEPT !.deviation =
                   [kind |-> "done",
                    r |-> scanFrameBuffers("deviation", cvLoaded, scanIn.frame,
                                           scanIn.spatial, strictDelete)]]
  /\ UNCHANGED << scanIn, coopVars, calVars, workVars >>

ScanNext == ScanOverlap \/ ScanDeviation

SpecScan == ScanInit /\ [][ScanNext]_vars

(***************************************************************************)
(* The spatial filter on its own: the overlap test (calculateIoU against   *)
(* the projected template) and the deviation test applied to one candidate *)
(* rectangle of a bounded family, on a small frame.                        *)
(***************************************************************************)
FilterFrame == [cols |-> 20, rows |-> 20]

FilterRects ==
  { Rect(x, y, w, h) : x \in 0 .. 9, y \in {1, 4, 7}, w \in 0 .. 12,
                       h \in {0, 5, 8, 11} }

\* Templates as calibrateReference builds them: a box over the image size.
FilterTemplates ==
  { SpatialOf(Rect(4, 4, 8, 8), 20, 20),
    SpatialOf(Rect(9, 9, 17, 17), 40, 40),
    ZeroSpatial }

FilterInit ==
  /\ CoopInit
  /\ cvLoaded
  /\ ~strictDelete
  /\ CalIdle
  /\ WorkIdle
  /\ scanIn \in [rect : FilterRects, spatial : FilterTemplates]
  /\ scanOut = [overlap |-> NoScanOut, deviation |-> NoScanOut]

\* Lines 84-91 of the overlap version on the one candidate.
FilterOverlap ==
  /\ scanOut.overlap.kind = "none"
  /\ LET expectedRect == ExpectedRect(scanIn.spatial, FilterFrame.cols,
                                      FilterFrame.rows)
     IN scanOut' = [scanOut EXCEPT !.overlap =
                      [kind |-> "done",
                       iou |-> calculateIoU(scanIn.rect, expectedRect),
                       accepted |-> ~SpatialFilterRejects("overlap", scanIn,
                                        FilterFrame, scanIn.spatial)]]
  /\ UNCHANGED << scanIn, coopVars, calVars, workVars >>

\* Lines 253-268 of the deviation version on the one candidate.
FilterDeviation ==
  /\ scanOut.deviation.kind = "none"
  /\ scanOut' = [scanOut EXCEPT !.deviation =
                   [kind |-> "done",
                    accepted |-> ~SpatialFilterRejects("deviation", scanIn,
                                     FilterFrame, scanIn.spatial)]]
  /\ UNCHANGED << scanIn, coopVars, calVars, workVars >>

FilterNext == FilterOverlap \/ FilterDeviation

SpecFilter == FilterInit /\ [][FilterNext]_vars

(***************************************************************************)
(* The cooperative orchestrator under the scheduling of the host: an image *)
(* load, a video load, a pending seek and a timer each eventually produce  *)
(* their event.  Each event consumes what enabled it, so a behaviour holds *)
(* finitely many of them and fairness on their disjunction delivers all.   *)
(***************************************************************************)
HostEvent ==
  \/ \E s \in Sessions, ctxOk \in BOOLEAN : ImageLoaded(s, ctxOk)
  \/ \E s \in Sessions : ImageError(s)
  \/ VideoLoaded
  \/ VideoError
  \/ \E readThrows \in BOOLEAN : Seeked(readThrows)
  \/ \E s \in Sessions : Timer(s)

FairSpec == Spec /\ WF_vars(HostEvent)

(***************************************************************************)
(* The worker-offloaded orchestrator (processVideo of                      *)
(* src/hooks/useVisionEngine.ts).  One action per synchronous segment of   *)
(* processVideo and per event: the image's load, the video's load, the     *)
(* 'seeked' event (every registered onSeeked runs), a message of the       *)
(* worker (every registered onWorkerMessage runs), the worker handling one *)
(* message, and the effect's cleanup.  Listeners are added by every call   *)
(* and never removed.                                                      *)
(***************************************************************************)
WorkerImages == {ImgMenu, ImgBlank}

\* The videos that load with a duration > 0.
WorkerVideos == {v \in Videos : v.duration > 0}

\* setState(prev => ({ ...prev, isProcessing: true, status: 'initializing',
\*                     progress: 0, detections: [] }))
WorkerReset(st) ==
  [st EXCEPT !.isProcessing = TRUE, !.status = "initializing",
             !.progress = 0, !.detections = << >>]

\* worker.postMessage(m): a terminated worker receives nothing.
PostMessage(q, m) == IF wAlive THEN Append(q, m) ELSE q

\* A message without frame pixels.
NoFrame == [cols |-> 0, rows |-> 0, cands |-> << >>, cvFails |-> FALSE]

\* worker.postMessage({ type: 'CALIBRATE', payload: calibData },
\*                    [calibData.data.buffer]): the buffer is in the transfer list.
CalibrateMsg(i) ==
  [type |-> "CALIBRATE", image |-> i, frame |-> NoFrame, timestamp |-> 0,
   transfer |-> TRUE]

\* A frame posted without a transfer list: the buffer is copied.
ProcessFrameMsgCopied(f, t) ==
  [type |-> "PROCESS_FRAME", image |-> ImgBlank, frame |-> f, timestamp |-> t,
   transfer |-> FALSE]

\* worker.postMessage({ type: 'PROCESS_FRAME', payload: { imageData, timestamp } },
\*                    [frameData.data.buffer])
ProcessFrameMsg(f, t) ==
  [type |-> "PROCESS_FRAME", image |-> ImgBlank, frame |-> f, timestamp |-> t,
   transfer |-> TRUE]

\* What the main thread does with the pixel buffers of one handler run: the
\* k-th ImageData is filled by getImageData and then posted; the handler has
\* no other statement that names it.
BufferOps(n) ==
  [j \in 1 .. 2 * n |->
     IF j % 2 = 1 THEN << "getImageData", (j + 1) \div 2 >>
     ELSE << "postMessage", j \div 2 >>]

\* No event and no message is pending for the worker-offloaded orchestrator.
WorkerQuiet ==
  /\ ~wVideo.loading
  /\ ~wVideo.seeking
  /\ inbox = << >>
  /\ outbox = << >>
  /\ \A s \in Sessions : wSess[s].pc # "awaitImage"

\* processVideo up to the await of the reference image's load (lines 67-84).
\* prior and rest record what the session state showed when the call was made.
WProcessVideo(i, v, ctxOk) ==
  /\ wAlive
  /\ wN < MaxSessions
  /\ LET s == wN + 1
     IN /\ wN' = s
        /\ IF ~ctxOk
           THEN /\ wState' = WorkerReset(wState)
                /\ wSess' = [wSess EXCEPT ![s] =
                               [NoWorkerSession EXCEPT !.pc = "returned",
                                                       !.img = i, !.vid = v,
                                                       !.prior = wState,
                                                       !.rest = WorkerQuiet]]
           ELSE /\ wState' = [WorkerReset(wState) EXCEPT !.status = "calibrating"]
                /\ wSess' = [wSess EXCEPT ![s] =
                               [NoWorkerSession EXCEPT !.pc = "awaitImage",
                                                       !.img = i, !.vid = v,
                                                       !.prior = wState,
                                                       !.rest = WorkerQuiet]]
  /\ wStep' = [NoStep EXCEPT !.event = "call"]
  /\ UNCHANGED << wAlive, wVideo, wMsgListeners, inbox, outbox, wProfile >>
  /\ UNCHANGED << coopVars, calVars, scanVars >>

\* img.onload, then lines 86-98 up to the await of the video's load.  When
\* drawImage or getImageData throws, the catch block logs and the call goes on
\* without having posted CALIBRATE.
WImageLoaded(s, drawThrows) ==
  /\ wSess[s].pc = "awaitImage"
  /\ inbox' = IF drawThrows THEN inbox
              ELSE PostMessage(inbox, CalibrateMsg(wSess[s].img))
  /\ wVideo' = [wVideo EXCEPT !.src = wSess[s].vid, !.loading = TRUE,
                              !.owner = s, !.seeking = FALSE, !.pos = 0]
  /\ wSess' = [wSess EXCEPT ![s].pc = "awaitVideo"]
  /\ wStep' = [NoStep EXCEPT !.event = "image",
                             !.ops = IF drawThrows THEN << >> ELSE BufferOps(1)]
  /\ UNCHANGED << wAlive, wState, wN, wMsgListeners, outbox, wProfile >>
  /\ UNCHANGED << coopVars, calVars, scanVars >>

\* processNextFrame of session s (lines 114-121) on the accumulated effects e.
\* setState(prev => ({ ...prev, isProcessing: false, status: 'completed',
\*                     progress: 100 }))
WorkerCompleted(st) ==
  [st EXCEPT !.isProcessing = FALSE, !.status = "completed", !.progress = 100]

processNextFrame(s, e) ==
  IF e.ss[s].currentTime >= e.ss[s].duration
  THEN [e EXCEPT !.st = WorkerCompleted(e.st)]
  ELSE [e EXCEPT !.vd.seeking = TRUE, !.vd.seekTarget = e.ss[s].currentTime]

\* video.onloadeddata: the call whose handler is installed resumes at line 101,
\* sets status processing, registers its two listeners and starts its loop.
WVideoLoaded ==
  /\ wVideo.loading
  /\ LET s == wVideo.owner
         vd == [wVideo EXCEPT !.loading = FALSE]
     IN IF s = 0 \/ wSess[s].pc # "awaitVideo"
        THEN /\ wVideo' = vd
             /\ UNCHANGED << wState, wSess, wMsgListeners >>
        ELSE \E e \in {processNextFrame(s,
                         [st |-> [wState EXCEPT !.status = "processing"],
                          ss |-> [wSess EXCEPT ![s].pc = "listening",
                                               ![s].duration = vd.src.duration,
                                               ![s].currentTime = 0],
                          vd |-> [vd EXCEPT !.listeners = Append(@, s)]])} :
                /\ wVideo' = e.vd
                /\ wState' = e.st
                /\ wSess' = e.ss
                /\ wMsgListeners' = Append(wMsgListeners, s)
  /\ wStep' = [NoStep EXCEPT !.event = "video"]
  /\ UNCHANGED << wAlive, wN, inbox, outbox, wProfile >>
  /\ UNCHANGED << coopVars, calVars, scanVars >>

\* onSeeked of every registered session, in registration order (lines
\* 124-137): the frame at the element's position, stamped with the session's
\* own currentTime.
RECURSIVE RunOnSeeked(_, _, _, _)
RunOnSeeked(ls, i, q, vd) ==
  IF i > Len(ls) THEN q
  ELSE RunOnSeeked(ls, i + 1,
         PostMessage(q, ProcessFrameMsg(FrameAt(vd.src, vd.pos),
                                        wSess[ls[i]].currentTime)),
         vd)

\* The decoder confirms the pending seek: 'seeked' fires.
WSeeked ==
  /\ wVideo.seeking
  /\ Len(inbox) + Len(wVideo.listeners) <= MaxQueue
  /\ \E vd \in {[wVideo EXCEPT !.seeking = FALSE, !.pos = wVideo.seekTarget]} :
     \E q \in {RunOnSeeked(vd.listeners, 1, inbox, vd)} :
        /\ wVideo' = vd
        /\ inbox' = q
        /\ wStep' = [NoStep EXCEPT !.event = "seeked",
                                   !.posts = Len(q) - Len(inbox),
                                   !.ops = BufferOps(Len(vd.listeners))]
  /\ UNCHANGED << wAlive, wState, wN, wSess, wMsgListeners, outbox, wProfile >>
  /\ UNCHANGED << coopVars, calVars, scanVars >>

FrameResultMsg(d, t) ==
  [type |-> "FRAME_RESULT", detected |-> d, timestamp |-> t, confidence |-> 1]

\* The worker script handles its oldest message.  CALIBRATE builds the profile
\* it keeps; PROCESS_FRAME scans the frame against that profile and answers
\* with one FRAME_RESULT that carries the request's timestamp.
WorkerHandle ==
  /\ wAlive
  /\ inbox # << >>
  /\ LET m == Head(inbox)
     IN IF m.type = "CALIBRATE"
        THEN /\ \E r \in {calibrateReference(TRUE, m.image)} :
                  wProfile' = IF r.kind = "profile" THEN r ELSE wProfile
             /\ UNCHANGED outbox
        ELSE /\ Len(outbox) < MaxQueue
             /\ outbox' = Append(outbox,
                  FrameResultMsg(
                    /\ wProfile.kind = "profile"
                    /\ scanFrame(TRUE, m.frame, wProfile.spatial).detected,
                    m.timestamp))
             /\ UNCHANGED wProfile
  /\ inbox' = Tail(inbox)
  /\ wStep' = [NoStep EXCEPT !.event = "worker"]
  /\ UNCHANGED << wAlive, wState, wN, wSess, wVideo, wMsgListeners >>
  /\ UNCHANGED << coopVars, calVars, scanVars >>

\* detections: [...prev.detections, { timestamp, confidence }]
AppendDetection(dets, m) ==
  Append(dets, [timestamp |-> m.timestamp, confidence |-> m.confidence])

\* onWorkerMessage of session s for the FRAME_RESULT m (lines 140-159).
onWorkerMessage(s, m, e) ==
  LET st1 == IF m.detected
             THEN [e.st EXCEPT !.detections = AppendDetection(@, m)]
             ELSE e.st
      st2 == [st1 EXCEPT !.progress = Progress(m.timestamp, e.ss[s].duration)]
  IN processNextFrame(s,
       [e EXCEPT !.st = st2,
                 !.ss[s].currentTime = Advance(@),
                 !.appends = IF m.detected THEN @ + 1 ELSE @,
                 !.advanced = Append(@, s)])

\* The 'message' listeners run in registration order.
RECURSIVE RunMessageListeners(_, _, _, _)
RunMessageListeners(ls, i, m, e) ==
  IF i > Len(ls) THEN e
  ELSE LET next == CHOOSE x \in {onWorkerMessage(ls[i], m, e)} : TRUE
       IN RunMessageListeners(ls, i + 1, m, next)

\* The oldest message of the worker is dispatched on the main thread.
WResult ==
  /\ wAlive
  /\ outbox # << >>
  /\ \E e \in {RunMessageListeners(wMsgListeners, 1, Head(outbox),
                 [st |-> wState, ss |-> wSess, vd |-> wVideo,
                  appends |-> 0, advanced |-> << >>])} :
        /\ wState' = e.st
        /\ wSess' = e.ss
        /\ wVideo' = e.vd
        /\ wStep' = [NoStep EXCEPT !.event = "result", !.appends = e.appends,
                                   !.advanced = e.advanced]
  /\ outbox' = Tail(outbox)
  /\ UNCHANGED << wAlive, wN, wMsgListeners, inbox, wProfile >>
  /\ UNCHANGED << coopVars, calVars, scanVars >>

\* The effect's cleanup (lines 57-64): the worker is terminated, its pending
\* messages are dropped, the video element is emptied.
WUnmount ==
  /\ wAlive
  /\ wAlive' = FALSE
  /\ inbox' = << >>
  /\ outbox' = << >>
  /\ wVideo' = [wVideo EXCEPT !.src = NoVideo, !.loading = FALSE,
                              !.seeking = FALSE]
  /\ wStep' = [NoStep EXCEPT !.event = "unmount"]
  /\ UNCHANGED << wState, wN, wSess, wMsgListeners, wProfile >>
  /\ UNCHANGED << coopVars, calVars, scanVars >>

WorkerNext ==
  \/ \E i \in WorkerImages, v \in WorkerVideos, ctxOk \in BOOLEAN :
       WProcessVideo(i, v, ctxOk)
  \/ \E s \in Sessions, drawThrows \in BOOLEAN : WImageLoaded(s, drawThrows)
  \/ WVideoLoaded
  \/ WSeeked
  \/ WorkerHandle
  \/ WResult
  \/ WUnmount

WorkerInit ==
  /\ CoopInit
  /\ cvLoaded
  /\ ~strictDelete
  /\ CalIdle
  /\ WorkIdle
  /\ ScanIdle

SpecWorker == WorkerInit /\ [][WorkerNext]_vars

(***************************************************************************)
(* The worker-offloaded orchestrator under the scheduling of the host and  *)
(* of the worker: an image load, a video load, a pending seek, a posted    *)
(* message and a posted answer each eventually produce their event.        *)
(***************************************************************************)
WorkerEvent ==
  \/ \E s \in Sessions, drawThrows \in BOOLEAN : WImageLoaded(s, drawThrows)
  \/ WVideoLoaded
  \/ WSeeked
  \/ WorkerHandle
  \/ WResult

FairSpecWorker == SpecWorker /\ WF_vars(WorkerEvent)

(***************************************************************************)
(* The two orchestrators side by side: one processVideo call on each, with *)
(* the same reference image and the same video, in an environment where    *)
(* every load and every seek succeeds and no pixel read throws.  The       *)
(* cooperative scan runs first; the worker-offloaded scan follows.         *)
(***************************************************************************)
\* No event of the host is pending for the cooperative orchestrator.
CoopQuiet ==
  /\ ~video.loading
  /\ ~video.seeking
  /\ \A s \in Sessions : sess[s].pc \notin {"awaitImage", "awaitYield"}

PairInit == Init /\ cvLoaded /\ ~strictDelete

PairNext ==
  \/ /\ nSessions = 0
     /\ \E i \in OrchImages, v \in WorkerVideos : ProcessVideo(i, v)
  \/ \E s \in Sessions : ImageLoaded(s, TRUE)
  \/ VideoLoaded
  \/ Seeked(FALSE)
  \/ \E s \in Sessions : Timer(s)
  \/ /\ nSessions = 1
     /\ wN = 0
     /\ CoopQuiet
     /\ WProcessVideo(sess[1].img, sess[1].vid, TRUE)
  \/ \E s \in Sessions : WImageLoaded(s, FALSE)
  \/ WVideoLoaded
  \/ WSeeked
  \/ WorkerHandle
  \/ WResult

SpecPair == PairInit /\ [][PairNext]_vars

(***************************************************************************)
(* Claims about the cooperative orchestrator.                              *)
(***************************************************************************)
ChainStep(a, b) ==
  \/ a = b
  \/ << a, b >> \in { << "idle", "initializing" >>,
                      << "initializing", "calibrating" >>,
                      << "calibrating", "processing" >>,
                      << "processing", "completed" >> }
  \/ b = "error" /\ a \in {"initializing", "calibrating", "processing"}

\* C1: every change of the status follows the chain idle -> initializing ->
\* calibrating -> processing -> (completed or error), error being entered
\* from an active status only (the library check from initializing), the only
\* other change being re-entry to initializing by a new processVideo call.
C1_StatusChain ==
  [][\A k \in 1 .. Len(statusLog') :
       LET a == IF k = 1 THEN state.status ELSE statusLog'[k - 1]
           b == statusLog'[k]
       IN \/ ChainStep(a, b)
          \/ b = "initializing" /\ nSessions' # nSessions]_vars

\* C2: a session whose abort signal is raised updates the session state no
\* more: the step that led to a state was never an update by a session that
\* is aborted, and such a session never ends in the catch block's error.
C2_AbortedSessionSilent ==
  [][\A s \in Sessions :
       aborted[s] =>
         /\ s \notin writers'
         /\ sess'[s] # sess[s] => sess'[s] = Returned
         /\ writers' = {} => state' = state]_vars

\* A session aborted while it waited for a seek or a timer has resumed and
\* returned, and the state is that of its successor.
C2_Witness ==
  \E s \in Sessions :
    /\ aborted[s]
    /\ sess[s] = Returned
    /\ mounted
    /\ video.pos > 0
    /\ state.status = "calibrating"

\* C3: at most one session has a non-aborted signal, the controller held by
\* the ref is the newest session's, and every update is the newest session's.
C3_SingleActiveSession ==
  /\ Cardinality({s \in Sessions : sess[s].pc # "none" /\ ~aborted[s]}) <= 1
  /\ abortRef = nSessions
  /\ writers \subseteq {nSessions}
  /\ \A s \in Sessions : (s < nSessions) => aborted[s]

C3_Witness ==
  /\ nSessions = 2
  /\ aborted[1]
  /\ ~aborted[2]
  /\ sess[1].pc = "awaitSeek"
  /\ sess[2].pc = "awaitVideo"
  /\ writers = {2}

\* The events a complete scan of video v with template spatial records: one
\* per sampled time whose frame scanFrame reports as matched.
RECURSIVE ExpectedEvents(_, _, _)
ExpectedEvents(v, spatial, t) ==
  IF t >= v.duration THEN << >>
  ELSE (IF scanFrame(TRUE, FrameAt(v, t), spatial).detected
        THEN << [timestamp |-> t, confidence |-> 1] >>
        ELSE << >>) \o ExpectedEvents(v, spatial, t + Interval)

Completed(s) ==
  sess[s].pc = "done" /\ ~aborted[s] /\ state.status = "completed"

\* C7: when a session reaches completed, the detections are exactly the
\* events of the sampled timestamps whose frame was reported as matched, each
\* with that timestamp and a confidence > 0.
C7_CompletedDetections ==
  \A s \in Sessions :
    Completed(s) =>
      /\ state.detections = ExpectedEvents(sess[s].vid, sess[s].spatial, 0)
      /\ \A k \in 1 .. Len(state.detections) : state.detections[k].confidence > 0

\* A video with one matching sampled frame gave exactly one event, at that
\* frame's timestamp.
C7_Witness ==
  \E s \in Sessions :
    /\ Completed(s)
    /\ Len(state.detections) = 1
    /\ state.detections[1].timestamp = Interval
    /\ sess[s].vid.duration = MaxDur

NoRegion(image) ==
  \A k \in 1 .. Len(image.contours) : image.contours[k].area <= MinArea

\* C9: a session whose reference image has no detectable region never enters
\* processing, never seeks and never completes; it ends in error with no
\* detection.
C9_NoRegionEndsInError ==
  \A s \in Sessions :
    (sess[s].pc # "none" /\ NoRegion(sess[s].img)) =>
      /\ sess[s].pc \in {"awaitImage", "failed", "done"}
      /\ (sess[s].pc = "done" => aborted[s])

\* C10: an error thrown in a session that is not aborted ends it in status
\* error with isProcessing = false and the detections unchanged, and the
\* session does nothing afterwards.
C10_ErrorTerminal ==
  [][\A s \in Sessions :
       /\ (sess[s].pc # "failed" /\ sess'[s].pc = "failed") =>
            /\ state'.status = "error"
            /\ ~state'.isProcessing
            /\ state'.detections = sess[s].newDetections
            /\ state'.progress = state.progress
       /\ sess[s].pc = "failed" =>
            /\ sess'[s] = sess[s]
            /\ s \notin writers'
            /\ (~aborted[s] /\ nSessions' = nSessions) => state' = state]_vars

\* A frame's evaluation failed after an event had been recorded.
C10_Witness ==
  \E s \in Sessions :
    /\ sess[s].pc = "failed"
    /\ ~aborted[s]
    /\ state.status = "error"
    /\ Len(state.detections) = 1
    /\ sess[s].currentTime > state.detections[1].timestamp

\* C6: a session that is neither aborted nor hit by an error reaches
\* completed with progress 100 and isProcessing false, and a session that
\* has returned makes no further update.  Sessions are started finitely often
\* and a settled session stays settled, so "every started session eventually
\* settles" is "again and again every started session is settled".
C6_EventuallyCompleted ==
  /\ []<>(\A s \in Sessions :
            \/ sess[s].pc = "none"
            \/ /\ Completed(s)
               /\ state.progress = 100
               /\ ~state.isProcessing
            \/ aborted[s]
            \/ sess[s].pc = "failed")
  /\ [][\A s \in Sessions :
          sess[s].pc = "done" => (sess'[s] = sess[s] /\ s \notin writers')]_vars

C6_Witness ==
  \E s \in Sessions :
    /\ Completed(s)
    /\ state.progress = 100
    /\ ~state.isProcessing
    /\ sess[s].currentTime >= MaxDur


\* C11: when a session is cancelled in the middle of its scan (its signal is
\* raised while it waits for a seek or for the yield after a frame), the
\* status stays non-terminal and the events collected so far are still in the
\* state.
C11_CancelKeepsEvents ==
  [][\A s \in Sessions :
       (/\ ~aborted[s]
        /\ aborted'[s]
        /\ sess[s].pc \in {"awaitSeek", "awaitYield"}) =>
          /\ state'.status \notin {"completed", "error"}
          /\ state'.detections = state.detections]_vars

RECURSIVE RecordedStamps(_)
RecordedStamps(frames) ==
  IF frames = << >> THEN << >>
  ELSE (IF Head(frames).recorded THEN << Head(frames).stamp >> ELSE << >>)
         \o RecordedStamps(Tail(frames))

\* C16: every frame a session evaluates is read with no seek pending, at the
\* position of the seek this iteration issued, and the events recorded carry
\* the positions at which their frames were read.
C16_ReadAfterSeek ==
  \A s \in Sessions :
    /\ \A k \in 1 .. Len(sess[s].frames) :
         /\ ~sess[s].frames[k].pending
         /\ sess[s].frames[k].pos = sess[s].frames[k].stamp
    /\ Len(sess[s].newDetections) = Len(RecordedStamps(sess[s].frames))
    /\ \A k \in 1 .. Len(sess[s].newDetections) :
         sess[s].newDetections[k].timestamp = RecordedStamps(sess[s].frames)[k]

\* A scan that replaced an earlier one has recorded an event for a frame read
\* at a position after the start.
C16_Witness ==
  /\ aborted[1]
  /\ sess[1] = Returned
  /\ ~aborted[2]
  /\ \E k \in 1 .. Len(sess[2].frames) :
       /\ sess[2].frames[k].recorded
       /\ sess[2].frames[k].pos = Interval
  /\ Len(state.detections) = 1

\* round(100 * t / d), halves up.
RoundedPercent(t, d) == (200 * t + d) \div (2 * d)

\* C23: the progress of the session state is an integer in [0, 100]; after
\* the step for timestamp t of a video of duration d it is round(100 * t / d)
\* (cooperative: the session waits for its yield; worker: a FRAME_RESULT of a
\* single call has just been handled); it is 100 whenever the status is
\* completed.
C23_Progress ==
  /\ state.progress \in 0 .. 100
  /\ wState.progress \in 0 .. 100
  /\ state.status = "completed" => state.progress = 100
  /\ wState.status = "completed" => wState.progress = 100
  /\ \A s \in Sessions :
       (sess[s].pc = "awaitYield" /\ ~aborted[s]) =>
          state.progress = RoundedPercent(sess[s].currentTime, sess[s].duration)

\* C26: in the cooperative orchestrator the buffer of every frame read is
\* released exactly once, in the step that read it (so before the next seek),
\* whether the frame matched, did not match or made scanFrame raise; a session
\* that has ended in completed or error has released every frame buffer.
C26_FrameBufferReleased ==
  \A s \in Sessions :
    \A k \in 1 .. Len(sess[s].frames) : sess[s].frames[k].matDeletes = 1

\* C30: in every reachable state of the cooperative orchestrator,
\* isProcessing is true exactly when the status is initializing, calibrating
\* or processing, and false exactly when it is idle, completed or error.
C30_ProcessingMatchesStatus ==
  /\ state.isProcessing <=>
       state.status \in {"initializing", "calibrating", "processing"}
  /\ ~state.isProcessing <=> state.status \in {"idle", "completed", "error"}

\* A scan has run to completion, and another has failed, with the flag down.
C30_Witness ==
  /\ ~state.isProcessing
  /\ state.status = "completed"
  /\ \E s \in Sessions : sess[s].pc = "done" /\ ~aborted[s]
  /\ \E s \in Sessions : sess[s].pc = "failed"

(***************************************************************************)
(* Claims about the worker-offloaded orchestrator.                         *)
(***************************************************************************)
\* C4: in the worker-offloaded orchestrator one session is active at a time:
\* each 'seeked' event causes exactly one PROCESS_FRAME message, and each
\* FRAME_RESULT causes at most one detection append and one advance of the
\* timeline, by the newest session.
C4_SingleWorkerSession ==
  wAlive =>
    /\ wStep.event = "seeked" => wStep.posts = 1
    /\ wStep.event = "result" =>
         /\ wStep.appends <= 1
         /\ Len(wStep.advanced) <= 1
         /\ \A k \in 1 .. Len(wStep.advanced) : wStep.advanced[k] = wN

Increasing(dets) ==
  \A k \in 1 .. Len(dets) - 1 : dets[k].timestamp < dets[k + 1].timestamp

Extends(old, new) ==
  /\ Len(old) <= Len(new)
  /\ \A k \in 1 .. Len(old) : new[k] = old[k]

\* C5: the detections list of either orchestrator is ordered by increasing
\* timestamp in every state, and between two session starts it only grows at
\* its end: no event is changed, reordered, duplicated or removed.
C5_DetectionsOrdered ==
  /\ [](Increasing(state.detections) /\ Increasing(wState.detections))
  /\ [][/\ nSessions' = nSessions => Extends(state.detections, state'.detections)
        /\ wN' = wN => Extends(wState.detections, wState'.detections)]_vars

\* C17: every pixel buffer posted to the worker is posted with its ownership
\* (it is in the transfer list), and after the post the main thread performs
\* no further operation on that buffer.
C17_BuffersTransferred ==
  /\ \A k \in 1 .. Len(inbox) : inbox[k].transfer
  /\ \A j \in 1 .. Len(wStep.ops) : \A k \in j + 1 .. Len(wStep.ops) :
       wStep.ops[j][1] = "postMessage" => wStep.ops[k][2] # wStep.ops[j][2]

\* The calibration image and a frame are both on their way to the worker.
C17_Witness ==
  /\ wStep.event = "seeked"
  /\ wStep.posts >= 1
  /\ \E k \in 1 .. Len(inbox) : inbox[k].type = "CALIBRATE"
  /\ \E k \in 1 .. Len(inbox) : inbox[k].type = "PROCESS_FRAME"

\* C24: a session that is not cancelled seeks 0, Interval, 2 * Interval, ...
\* in this order, each once, up to the duration, and evaluates one frame per
\* sought timestamp.  Cooperative: the frames a session has read are those at
\* these timestamps in order, and a completed session has read all of them.
\* Worker: every seek that ends hands exactly one frame to the worker, the
\* one at the position sought, under the timestamp sought.
C24_EachTimestampOnce ==
  /\ \A s \in Sessions :
       ~aborted[s] =>
         /\ \A k \in 1 .. Len(sess[s].frames) :
              /\ sess[s].frames[k].stamp = (k - 1) * Interval
              /\ sess[s].frames[k].pos = (k - 1) * Interval
         /\ sess[s].pc = "done" =>
              /\ Len(sess[s].frames) * Interval >= sess[s].duration
              /\ Len(sess[s].frames) > 0 =>
                   (Len(sess[s].frames) - 1) * Interval < sess[s].duration
  /\ (wAlive /\ wStep.event = "seeked") =>
       /\ wStep.posts = 1
       /\ inbox[Len(inbox)].timestamp = wVideo.pos

\* C25: every processVideo call resets the session state: from the call until
\* the scan of that call starts (the call waits for its image or its video,
\* or has returned at once), the state shows progress 0 and no detections,
\* and so does the state after a call that fails at once because the library
\* is missing.
C25_CallResets ==
  /\ (nSessions > 0 /\ sess[nSessions].pc \in {"awaitImage", "awaitVideo"}) =>
        /\ state.progress = 0
        /\ state.detections = << >>
  /\ ~cvLoaded => (state.progress = 0 /\ state.detections = << >>)
  /\ (wN > 0 /\ wSess[wN].pc \in {"awaitImage", "awaitVideo", "returned"}) =>
        /\ wState.progress = 0
        /\ wState.detections = << >>

\* C29: a calibration phase of the worker-offloaded orchestrator that fails
\* (the reference image cannot be drawn, so that no CALIBRATE message is sent)
\* moves the state to status error and stops the call: right after the failing
\* step the status is error and the call has returned instead of going on to
\* load the video, so that it can never enter processing or send a
\* PROCESS_FRAME message.
C29_CalibrationFailureStops ==
  (wStep.event = "image" /\ wStep.ops = << >>) =>
     /\ wState.status = "error"
     /\ wSess[wVideo.owner].pc = "returned"

\* C31: within one scan session the progress never decreases; the progress
\* only drops, and then to 0, in the step in which a new scan starts.  This
\* holds of the state of either orchestrator.
C31_ProgressNeverDecreases ==
  [][/\ state'.progress < state.progress =>
          nSessions' = nSessions + 1 /\ state'.progress = 0
     /\ wState'.progress < wState.progress =>
          wN' = wN + 1 /\ wState'.progress = 0]_vars

\* C32: in the worker-offloaded orchestrator every scan that was started
\* eventually leaves the active statuses: while the hook is mounted, a state
\* with isProcessing set is followed by a state with status completed or
\* error and isProcessing false (or by the unmounting of the hook), when the
\* events that can occur are delivered.
C32_ScanEventuallyEnds ==
  (wAlive /\ wState.isProcessing) ~>
     \/ ~wAlive
     \/ wState.status \in {"completed", "error"} /\ ~wState.isProcessing

(***************************************************************************)
(* Claims about the two orchestrators together.                            *)
(***************************************************************************)
\* What an observer sees of a session state.
Observable(st) ==
  [status |-> st.status, progress |-> st.progress, detections |-> st.detections]

\* C18: the two scheduling models are equivalent: for the same video, the
\* same reference image and the same verdicts both orchestrators go through
\* the same observable session states; in particular, once both scans have
\* come to rest, they show the same status, progress and detections.
C18_SameOutcome ==
  (nSessions = 1 /\ wN = 1 /\ CoopQuiet /\ WorkerQuiet) =>
    Observable(state) = Observable(wState)

\* C19: a second full scan over the same video and the same reference image,
\* started after the first one has completed and come to rest, ends with the
\* same ordered Detection Events as the first: in the cooperative
\* orchestrator the two sessions' lists are equal, and in the worker-offloaded
\* orchestrator the completed rerun shows the list the first run showed.
C19_RerunSameEvents ==
  /\ \A s \in Sessions \ {1} :
       (/\ sess[s - 1].pc = "done" /\ sess[s].pc = "done"
        /\ sess[s].img = sess[s - 1].img /\ sess[s].vid = sess[s - 1].vid) =>
          sess[s].newDetections = sess[s - 1].newDetections
  /\ \A s \in Sessions \ {1} :
       (/\ wAlive /\ wN = s /\ wSess[s].pc = "listening"
        /\ wSess[s].prior.status = "completed" /\ wSess[s].rest
        /\ wSess[s].img = wSess[s - 1].img /\ wSess[s].vid = wSess[s - 1].vid
        /\ wState.status = "completed" /\ WorkerQuiet) =>
          wState.detections = wSess[s].prior.detections

(***************************************************************************)
(* Claims about the frame scanner.                                         *)
(***************************************************************************)
ScanResults ==
  {scanOut[v].r : v \in {v \in {"overlap", "deviation"} : scanOut[v].kind = "done"}}

Releases(r, b) == Cardinality({k \in 1 .. Len(r.log) : r.log[k] = b})

\* C12: every buffer created during one call of scanFrame (overlap and
\* deviation versions) is released exactly once by the time the call
\* returns, on every path; no delete() is a second delete of a buffer.
C12_ReleasedExactlyOnce ==
  \A r \in ScanResults :
    /\ ~r.raised
    /\ \A b \in r.created : Releases(r, b) = 1

ScanVersions == {v \in {"overlap", "deviation"} : scanOut[v].kind = "done"}

\* C14: with the library available scanFrame never raises to its caller:
\* whatever the frame, and also when a step or a buffer release fails, the
\* call returns, and it returns false when the frame could not be evaluated.
C14_ScanNeverRaises ==
  \A v \in ScanVersions :
    cvLoaded =>
      /\ ~scanOut[v].r.raised
      /\ scanIn.frame.cvFails => ~scanOut[v].r.detected

\* What the caller sees of a call: the value returned, or that it raised.
Outcome(r) == IF r.raised THEN "raised" ELSE IF r.detected THEN "true" ELSE "false"

\* C15: without the library scanFrame reports a precondition failure that the
\* caller can tell apart from the verdict "no match in this frame".
C15_UnavailableReported ==
  \A v \in ScanVersions : ~cvLoaded => Outcome(scanOut[v].r) # "false"

\* The candidates that pass the spatial filter of version v and the content
\* verification.
Passing(v) ==
  {i \in 1 .. Len(scanIn.frame.cands) :
     LET cand == scanIn.frame.cands[i]
     IN /\ ~SpatialFilterRejects(v, cand, scanIn.frame, scanIn.spatial)
        /\ ~cand.roiFails
        /\ ~cand.lightFails
        /\ 100 * cand.lightCount > cand.rect.width * cand.rect.height
        /\ 100 * cand.whiteCount > cand.rect.width * cand.rect.height}

\* C20: scanFrame returns true if and only if at least one candidate passes
\* the spatial filter and the content verification, and no candidate after
\* the first one that passes both is evaluated.
C20_TrueIffCandidatePasses ==
  \A v \in ScanVersions :
    (cvLoaded /\ ~scanIn.frame.cvFails) =>
      /\ Outcome(scanOut[v].r) = "true" <=> Passing(v) # {}
      /\ \A i \in Passing(v) : \A b \in scanOut[v].r.created : b[2] <= i

\* A candidate whose content verification raises (the crop or the light
\* range fails).
Failing(cand) == cand.roiFails \/ cand.lightFails

\* The frame without such candidates.
WithoutFailing(frame) ==
  [frame EXCEPT !.cands = SelectSeq(@, LAMBDA c : ~Failing(c))]

\* C27: an error raised while the content of one candidate is verified is
\* recovered inside scanFrame: the call returns normally, and with the
\* verdict that the remaining candidates give on their own.
C27_CandidateErrorRecovered ==
  \A v \in ScanVersions :
    (/\ cvLoaded
     /\ ~scanIn.frame.cvFails
     /\ \E i \in 1 .. Len(scanIn.frame.cands) : Failing(scanIn.frame.cands[i])) =>
       /\ ~scanOut[v].r.raised
       /\ scanOut[v].r.detected =
            scanFrameBuffers(v, TRUE, WithoutFailing(scanIn.frame),
                             scanIn.spatial, strictDelete).detected

(***************************************************************************)
(* Claims about the colour ranges.                                         *)
(***************************************************************************)
\* The upper limit of each of the three colour channels.
ChannelTop == << 180, 255, 255 >>

\* C22: for every RGB sample and every non-negative tolerance the range of
\* getHsvRange has lower <= upper in each of the three channels, both bounds
\* within [0, 180] for the hue and within [0, 255] for saturation and value,
\* and the sample's own converted colour between lower and upper.
C22_RangeWellFormed ==
  calOut.kind = "done" =>
    \A c \in 1 .. 3 :
      LET lo == calOut.range.lower[c]
          up == calOut.range.upper[c]
          own == HsvOf(calIn.rgb)[c]
      IN /\ FracLeq(lo, up)
         /\ FracLeq(Frac(0, 1), lo) /\ FracLeq(up, Frac(ChannelTop[c], 1))
         /\ FracLeq(lo, own) /\ FracLeq(own, up)

\* A sample whose hue is computed negative and wrapped (blue above green
\* under a red maximum), with a tolerance of zero.
C22_Witness ==
  /\ calOut.kind = "done"
  /\ HueUnwrapped(calIn.rgb).num < 0
  /\ calIn.tolerance.h = 0
  /\ calOut.range.lower[1] = calOut.range.upper[1]

(***************************************************************************)
(* Claims about the spatial filter.                                        *)
(***************************************************************************)
\* The pixels a rectangle covers.
Cells(r) ==
  { << i, j >> : i \in r.x .. r.x + r.width - 1, j \in r.y .. r.y + r.height - 1 }

\* The template projected onto the frame, rounded down to whole pixels.
Projected ==
  LET s == scanIn.spatial
      Floor(a, b) == CHOOSE q \in 0 .. a : q * b <= a /\ a < (q + 1) * b
  IN Rect(Floor(s.x * FilterFrame.cols, s.cols), Floor(s.y * FilterFrame.rows, s.rows),
          Floor(s.w * FilterFrame.cols, s.cols), Floor(s.h * FilterFrame.rows, s.rows))

InterCells == Cardinality(Cells(scanIn.rect) \cap Cells(Projected))

UnionCells == Cardinality(Cells(scanIn.rect) \cup Cells(Projected))

\* The largest of the four normalised differences is at most 15/100
\* (differences over the common denominator frame size * template size).
WithinDeviation ==
  LET s == scanIn.spatial
      r == scanIn.rect
      Diff(a, fa, b, fb) == IF a * fb >= b * fa THEN a * fb - b * fa
                            ELSE b * fa - a * fb
  IN /\ 20 * Diff(r.x, FilterFrame.cols, s.x, s.cols) <= 3 * FilterFrame.cols * s.cols
     /\ 20 * Diff(r.y, FilterFrame.rows, s.y, s.rows) <= 3 * FilterFrame.rows * s.rows
     /\ 20 * Diff(r.width, FilterFrame.cols, s.w, s.cols) <= 3 * FilterFrame.cols * s.cols
     /\ 20 * Diff(r.height, FilterFrame.rows, s.h, s.rows) <= 3 * FilterFrame.rows * s.rows

\* C21: both spatial tests have an inclusive boundary.  The overlap test
\* accepts a candidate exactly when the pixels it shares with the projected
\* template are at least 3/10 of the pixels either covers; calculateIoU is 0
\* for disjoint or empty rectangles and lies in [0, 1].  The deviation test
\* accepts exactly when each normalised difference is at most 15/100.
C21_InclusiveBoundaries ==
  /\ scanOut.overlap.kind = "done" =>
       /\ scanOut.overlap.accepted <=> 10 * InterCells >= 3 * UnionCells /\ UnionCells > 0
       /\ 0 <= scanOut.overlap.iou.num /\ scanOut.overlap.iou.num <= scanOut.overlap.iou.den
       /\ InterCells = 0 => scanOut.overlap.iou.num = 0
       /\ InterCells > 0 =>
            scanOut.overlap.iou.num * UnionCells = InterCells * scanOut.overlap.iou.den
  /\ scanOut.deviation.kind = "done" =>
       (scanOut.deviation.accepted <=> WithinDeviation)

\* C28: the overlap test and the deviation test are interchangeable: on the
\* same frame size, template and candidate rectangle one accepts exactly when
\* the other does.
C28_PoliciesEquivalent ==
  (scanOut.overlap.kind = "done" /\ scanOut.deviation.kind = "done") =>
     (scanOut.overlap.accepted <=> scanOut.deviation.accepted)

(***************************************************************************)
(* Claims about the profile builder.                                       *)
(***************************************************************************)
\* C8: calibrateReference fails whenever no contour exceeds the minimum-area
\* floor, so every profile it returns has width, height and aspect ratio > 0.
C8_NoRegionFails ==
  /\ calOut.triad.kind # "none" =>
       /\ NoRegion(calIn) => calOut.triad.kind = "throw"
       /\ calOut.triad.kind = "profile" =>
            /\ calOut.triad.spatial.w > 0
            /\ calOut.triad.spatial.h > 0
            /\ calOut.triad.spatial.aspectNum > 0
  /\ calOut.hue.kind # "none" =>
       /\ NoRegion(calIn) => calOut.hue.kind = "throw"
       /\ calOut.hue.kind = "profile" =>
            /\ calOut.hue.geometry.width > 0
            /\ calOut.hue.geometry.height > 0
            /\ calOut.hue.geometry.aspectNum > 0

CalBufferResults ==
  {calOut[v] : v \in {v \in {"triadBuffers", "hueBuffers"} :
                        calOut[IF v = "triadBuffers" THEN "triad" ELSE "hue"].kind
                          # "none"}}

\* C13: every buffer created during a call of calibrateReference (either
\* version) is released by the time the call ends: on normal return, in the
\* no-region branch, and when an image-processing step throws.
C13_CalibrationReleasesAll ==
  \A r \in CalBufferResults :
    \A b \in r.created : \E k \in 1 .. Len(r.released) : r.released[k] = b

=============================================================================
